---- MODULE Spec2Model ----
(***************************************************************************)
(* Project manager: the Express/SQLite project API (server.js, kept as     *)
(* src/unnamed/part_000) and the React client state manager                *)
(* (src/public/app.js, component App).                                     *)
(*                                                                         *)
(* JavaScript values are encoded so that TLC can compare them:             *)
(*   - a text value is a string; undefined/null is the string Undef        *)
(*     (every place of the code that reads a field treats undefined and    *)
(*     null alike: !x, x || '', and sqlite3 binds both as NULL);           *)
(*   - a numeric value is an integer; undefined/null is UndefNum;          *)
(*   - the id of an object without an id property is NoId.                 *)
(***************************************************************************)
EXTENDS Integers, Sequences, FiniteSets, Bags, TLC

\* ------------------------------------------------------------ bounds
MaxId == 2         \* rows the store is asked to insert in one run
MaxReqs == 3       \* fetch calls the client issues in one run
MaxInFlight == 2   \* fetch calls of the client that are unsettled at one time
MaxSnap == 3       \* entries of a snapshot the clients page is rendered from

\* ------------------------------------------------------------ values
Undef == "undefined"
UndefNum == -1
NoId == 0

TruthyText(v) == v # Undef /\ v # ""
TruthyNum(n) == n # UndefNum /\ n # 0

\* v || ''
KeepText(v) == v
OrEmpty(v) == IF TruthyText(v) THEN v ELSE ""
\* n || 0
OrZero(n) == IF TruthyNum(n) THEN n ELSE 0
\* finished ? 1 : 0
BoolInt(v) == IF TruthyNum(v) THEN 1 ELSE 0

\* A request body: the nine properties the handlers destructure from req.body.
Body(t, ds, dl, p, c, ct, a, pr, f) ==
  [title |-> t, description |-> ds, deadline |-> dl, person |-> p,
   client |-> c, contact |-> ct, achievements |-> a, price |-> pr,
   finished |-> f]

\* The bodies a caller of the HTTP API sends with POST: the record of the
\* scenario with every optional property omitted, a full record with a truthy
\* finished that is not 1, and one body for each required property missing.
PostBodies ==
  { Body("Website", Undef, "2024-12-01", "Alice", Undef, Undef, UndefNum, UndefNum, UndefNum),
    Body("Shop", "web shop", "2025-01-15", "Bob", "Acme", "a@x", 50, 100, 2),
    Body(Undef, "no title", "2025-01-15", "Bob", "Acme", "a@x", 50, 100, 1),
    Body("Website", Undef, "", "Alice", Undef, Undef, UndefNum, UndefNum, UndefNum),
    Body("Shop", "web shop", "2025-01-15", Undef, "Beta", "b@x", 10, 20, 0) }

\* The bodies a caller of the HTTP API sends with PUT: a full record, a record
\* with empty and omitted properties, and a body without title.
PutBodies ==
  { Body("Shop 2", "redesign", "2025-03-01", "Carol", "Beta", "b@x", 75, 250, 2),
    Body("Website", "", "2024-12-01", "Alice", Undef, Undef, 0, UndefNum, UndefNum),
    Body(Undef, "no title", "2025-01-15", "Bob", "Acme", "a@x", 50, 100, 1) }

\* What the store does to the statements of one request: it runs them, fails
\* the first (db.run / db.all), or fails the read-back (db.get).
StoreFaults == {"none", "run", "get"}

\* The ids a caller of the HTTP API puts in the URL.
Ids == 1..(MaxId + 1)

\* ------------------------------------------------------------ the store
\* A row of table projects.
Row(id, t, ds, dl, p, c, ct, a, pr, f) ==
  [id |-> id, title |-> t, description |-> ds, deadline |-> dl, person |-> p,
   client |-> c, contact |-> ct, achievements |-> a, price |-> pr,
   finished |-> f]

\* A JSON object as the client reads it: the properties of a row, and the
\* error and success properties of the other responses (absent: Undef, FALSE).
Json(id, t, ds, dl, p, c, ct, a, pr, f, err, ok) ==
  [id |-> id, title |-> t, description |-> ds, deadline |-> dl, person |-> p,
   client |-> c, contact |-> ct, achievements |-> a, price |-> pr,
   finished |-> f, error |-> err, success |-> ok]

\* res.json(row)
RowJson(r) ==
  Json(r.id, r.title, r.description, r.deadline, r.person, r.client,
       r.contact, r.achievements, r.price, r.finished, Undef, FALSE)

\* res.json({ error: msg })
ErrorJson(msg) ==
  Json(NoId, Undef, Undef, Undef, Undef, Undef, Undef, UndefNum, UndefNum,
       UndefNum, msg, FALSE)

\* res.json({ success: true })
SuccessJson ==
  Json(NoId, Undef, Undef, Undef, Undef, Undef, Undef, UndefNum, UndefNum,
       UndefNum, Undef, TRUE)

\* The body of a response that carries no JSON text (res.json(undefined)).
NoJson ==
  Json(NoId, Undef, Undef, Undef, Undef, Undef, Undef, UndefNum, UndefNum,
       UndefNum, Undef, FALSE)

\* A response: status, what the body parses to ("object", "array", or "empty"
\* when the body is no JSON text and res.json() of the client rejects), and
\* the parsed value.
Response(status, kind, body, rows) ==
  [status |-> status, kind |-> kind, body |-> body, rows |-> rows]

ErrorResponse(status, msg) == Response(status, "object", ErrorJson(msg), <<>>)

RECURSIVE MapRows(_)
MapRows(st) ==
  IF st = <<>> THEN <<>> ELSE <<RowJson(Head(st))>> \o MapRows(Tail(st))

StoreIds(st) == { st[i].id : i \in 1..Len(st) }

RECURSIVE MaxRowId(_)
MaxRowId(st) ==
  IF st = <<>> THEN 0
  ELSE LET m == MaxRowId(Tail(st)) IN IF Head(st).id > m THEN Head(st).id ELSE m

\* id INTEGER PRIMARY KEY AUTOINCREMENT: one more than the largest rowid the
\* table has ever held (sqlite_sequence), never a rowid of a deleted row.
NoAutoincrementId(st, sq) == MaxRowId(st) + 1
NextRowId(st, sq) == (IF sq > MaxRowId(st) THEN sq ELSE MaxRowId(st)) + 1

\* SELECT * FROM projects WHERE id = ? : the rows that match.
RECURSIVE SelectById(_, _)
SelectById(st, id) ==
  IF st = <<>> THEN <<>>
  ELSE (IF Head(st).id = id THEN <<Head(st)>> ELSE <<>>) \o SelectById(Tail(st), id)

\* res.json(row) with the row db.get found, undefined when none matched.
GetResponse(status, found) ==
  IF found = <<>> THEN Response(status, "empty", NoJson, <<>>)
  ELSE Response(status, "object", RowJson(found[1]), <<>>)

\* DELETE FROM projects WHERE id = ?
DeleteFirstRow(st, id) == IF st = <<>> THEN <<>> ELSE Tail(st)
RECURSIVE DeleteRows(_, _)
DeleteRows(st, id) ==
  IF st = <<>> THEN <<>>
  ELSE (IF Head(st).id = id THEN <<>> ELSE <<Head(st)>>) \o DeleteRows(Tail(st), id)

\* The outcome of a handler: the store and sqlite_sequence after it, and the
\* response it sends.
Outcome(st, sq, res) == [store |-> st, seq |-> sq, res |-> res]

\* ------------------------------------------------------------ the handlers
\* if (!title || !deadline || !person)
TitlePresent(body) == TruthyText(body.title)
RequiredPresent(body) ==
  TruthyText(body.title) /\ TruthyText(body.deadline) /\ TruthyText(body.person)

\* title TEXT NOT NULL, deadline TEXT NOT NULL, person TEXT NOT NULL
NotNullHolds(body) ==
  body.title # Undef /\ body.deadline # Undef /\ body.person # Undef

\* The row INSERT INTO projects (...) VALUES (?, ...) adds for a body.
InsertedRow(id, body) ==
  Row(id, body.title, OrEmpty(body.description), body.deadline, body.person,
      OrEmpty(body.client), OrEmpty(body.contact), OrZero(body.achievements),
      OrZero(body.price), BoolInt(body.finished))

\* The row UPDATE projects SET ... WHERE id = ? leaves for a body.
UpdatedRow(id, body) ==
  Row(id, body.title, body.description, body.deadline, body.person,
      body.client, body.contact, body.achievements, body.price,
      BoolInt(body.finished))

\* UPDATE projects SET ... WHERE id = ?
RECURSIVE UpdateAllRows(_, _, _)
UpdateAllRows(st, id, body) ==
  IF st = <<>> THEN <<>>
  ELSE <<UpdatedRow(Head(st).id, body)>> \o UpdateAllRows(Tail(st), id, body)
RECURSIVE UpdateRows(_, _, _)
UpdateRows(st, id, body) ==
  IF st = <<>> THEN <<>>
  ELSE <<IF Head(st).id = id THEN UpdatedRow(id, body) ELSE Head(st)>>
       \o UpdateRows(Tail(st), id, body)

\* app.get('/api/projects'): errAll is the store failing the SELECT.
GetProjects(st, sq, errAll) ==
  IF errAll THEN Outcome(st, sq, ErrorResponse(500, "Database error"))
  ELSE Outcome(st, sq, Response(200, "array", NoJson, MapRows(st)))

\* app.post('/api/projects'): errRun is the store failing the INSERT, errGet
\* the store failing the SELECT that reads the row back.
PostProjects(st, sq, body, errRun, errGet) ==
  IF ~RequiredPresent(body)
  THEN Outcome(st, sq, ErrorResponse(400, "Title, deadline and person are required"))
  ELSE IF errRun
  THEN Outcome(st, sq, ErrorResponse(500, "Database insertion error"))
  ELSE LET insertedId == NextRowId(st, sq)
           st2 == Append(st, InsertedRow(insertedId, body))
       IN  IF errGet
           THEN Outcome(st2, insertedId, ErrorResponse(500, "Database retrieval error"))
           ELSE Outcome(st2, insertedId, GetResponse(201, SelectById(st2, insertedId)))

\* app.put('/api/projects/:id'): the UPDATE fails when the store fails
\* (errRun) or when a matching row would get NULL in a NOT NULL column.
PutProject(st, sq, projectId, body, errRun, errGet) ==
  IF errRun \/ (projectId \in StoreIds(st) /\ ~NotNullHolds(body))
  THEN Outcome(st, sq, ErrorResponse(500, "Database update error"))
  ELSE LET st2 == UpdateRows(st, projectId, body)
       IN  IF errGet
           THEN Outcome(st2, sq, ErrorResponse(500, "Database retrieval error"))
           ELSE Outcome(st2, sq, GetResponse(200, SelectById(st2, projectId)))

\* app.delete('/api/projects/:id')
DeleteProjectStrict(st, sq, projectId, errRun) ==
  IF errRun THEN Outcome(st, sq, ErrorResponse(500, "Database deletion error"))
  ELSE IF projectId \notin StoreIds(st)
  THEN Outcome(st, sq, ErrorResponse(404, "Not found"))
  ELSE Outcome(DeleteRows(st, projectId), sq, Response(200, "object", SuccessJson, <<>>))
DeleteProject(st, sq, projectId, errRun) ==
  IF errRun THEN Outcome(st, sq, ErrorResponse(500, "Database deletion error"))
  ELSE Outcome(DeleteRows(st, projectId), sq, Response(200, "object", SuccessJson, <<>>))

\* ------------------------------------------------------------ state
VARIABLES
  store,     \* table projects: its rows in rowid order
  seq,       \* sqlite_sequence of table projects: the largest rowid ever used
  issued,    \* history: the ids that answers to POST have returned
  last,      \* the latest exchange of a direct caller of the HTTP API
  projects,  \* App: the projects state (the local snapshot)
  mounted,   \* App: the mount effect has run
  crashed,   \* App: projects holds a non-array and rendering has thrown
  reqs,      \* fetch calls of the client on their way to the server
  resps,     \* responses on their way to the client
  nreq       \* fetch calls the client has issued

serverVars == <<store, seq, issued>>
clientVars == <<projects, mounted, crashed, reqs, resps, nreq>>
vars == <<store, seq, issued, last, projects, mounted, crashed, reqs, resps, nreq>>

\* An exchange: the request, what the store did to its statements, the answer.
Exchange(method, id, body, errRun, errGet, res) ==
  [method |-> method, id |-> id, body |-> body, errRun |-> errRun,
   errGet |-> errGet, res |-> res]

NoBody == Body(Undef, Undef, Undef, Undef, Undef, Undef, UndefNum, UndefNum, UndefNum)

Init ==
  /\ store = <<>>
  /\ seq = 0
  /\ issued = {}
  /\ last = Exchange("NONE", NoId, NoBody, FALSE, FALSE, Response(0, "empty", NoJson, <<>>))
  /\ projects = <<>>
  /\ mounted = FALSE
  /\ crashed = FALSE
  /\ reqs = EmptyBag
  /\ resps = EmptyBag
  /\ nreq = 0

\* The ids answered so far, with the one an answer to POST returns.
Issue(res) == IF res.status = 201 /\ res.kind = "object" THEN issued \cup {res.body.id} ELSE issued

\* ------------------------------------------------------------ direct API calls
ApiGet(errAll) ==
  LET o == GetProjects(store, seq, errAll)
  IN  /\ last' = Exchange("GET", NoId, NoBody, errAll, FALSE, o.res)
      /\ UNCHANGED <<store, seq, issued>>
      /\ UNCHANGED clientVars

ApiPost(body, errRun, errGet) ==
  LET o == PostProjects(store, seq, body, errRun, errGet)
  IN  /\ o.seq <= MaxId
      /\ store' = o.store
      /\ seq' = o.seq
      /\ issued' = Issue(o.res)
      /\ last' = Exchange("POST", NoId, body, errRun, errGet, o.res)
      /\ UNCHANGED clientVars

ApiPut(id, body, errRun, errGet) ==
  LET o == PutProject(store, seq, id, body, errRun, errGet)
  IN  /\ store' = o.store
      /\ seq' = o.seq
      /\ last' = Exchange("PUT", id, body, errRun, errGet, o.res)
      /\ UNCHANGED issued
      /\ UNCHANGED clientVars

ApiDelete(id, errRun) ==
  LET o == DeleteProject(store, seq, id, errRun)
  IN  /\ store' = o.store
      /\ seq' = o.seq
      /\ last' = Exchange("DELETE", id, NoBody, errRun, FALSE, o.res)
      /\ UNCHANGED issued
      /\ UNCHANGED clientVars

ApiNext ==
  \/ \E e \in BOOLEAN : ApiGet(e)
  \/ \E b \in PostBodies, f \in StoreFaults : ApiPost(b, f = "run", f = "get")
  \/ \E id \in Ids, b \in PutBodies, f \in StoreFaults : ApiPut(id, b, f = "run", f = "get")
  \/ \E id \in Ids, e \in BOOLEAN : ApiDelete(id, e)

SpecApi == Init /\ [][ApiNext]_vars

\* ------------------------------------------------------------ the client
\* A fetch call on its way to the server.
Request(method, id, body) == [method |-> method, id |-> id, body |-> body]

\* A fetch call the client has to settle: the call it answers (the id is the
\* one the closure of deleteProject keeps) and the response; kind "failed"
\* is a fetch whose promise rejects (the network call itself failed).
Reply(method, id, res) == [method |-> method, id |-> id, res |-> res]

Failed == Response(0, "failed", NoJson, <<>>)

One(m) == SetToBag({m})

InFlight == BagCardinality(reqs) + BagCardinality(resps)

\* The values of formState when the form is submitted: '' or unparsable
\* text in a numeric input is UndefNum (parseFloat gives NaN).
FormStates ==
  { Body("Site", "", "2025-02-01", "Dana", "Acme", "", 0, UndefNum, 0),
    Body("App", "mobile", "2025-04-01", "Eve", "Acme", "a@x", 30, 200, 1),
    Body("", "draft", "2025-04-01", "Eve", "", "", 0, 0, 0) }

\* handleSubmit: if (!formState.title || !formState.deadline || !formState.person)
FormValid(f) == TruthyText(f.title) /\ TruthyText(f.deadline) /\ TruthyText(f.person)

\* handleSubmit: payload = {...formState, achievements: parseFloat(..) || 0, price: ..}
Payload(f) ==
  [f EXCEPT !.achievements = OrZero(f.achievements), !.price = OrZero(f.price)]

\* toggleFinished: updated = { ...project, finished: project.finished ? 0 : 1 },
\* as the handler of PUT reads it from the body.
SameFinished(p) == p.finished
Flipped(p) == IF TruthyNum(p.finished) THEN 0 ELSE 1
ToggledBody(p) ==
  Body(p.title, p.description, p.deadline, p.person, p.client, p.contact,
       p.achievements, p.price, Flipped(p))

\* setProjects((prev) => [...prev, newProject])
PrependProject(prev, newProject) == <<newProject>> \o prev
AppendProject(prev, newProject) == Append(prev, newProject)

\* setProjects((prev) => prev.filter((p) => p.id !== id))
KeepAll(prev, id) == prev
RECURSIVE FilterOut(_, _)
FilterOut(prev, id) ==
  IF prev = <<>> THEN <<>>
  ELSE (IF Head(prev).id # id THEN <<Head(prev)>> ELSE <<>>) \o FilterOut(Tail(prev), id)

\* setProjects((prev) => prev.map((p) => (p.id === updatedRow.id ? updatedRow : p)))
ReplaceFirst(prev, updatedRow) ==
  IF prev = <<>> THEN <<>> ELSE <<updatedRow>> \o Tail(prev)
ReplaceById(prev, updatedRow) ==
  [i \in 1..Len(prev) |-> IF prev[i].id = updatedRow.id THEN updatedRow ELSE prev[i]]

\* The store a page load may find: empty, or holding the row of an earlier POST.
Seeds ==
  { Outcome(<<>>, 0, Failed),
    PostProjects(<<>>, 0,
      Body("Website", Undef, "2024-12-01", "Alice", Undef, Undef, UndefNum, UndefNum, UndefNum),
      FALSE, FALSE) }

InitUi ==
  /\ \E s \in Seeds : store = s.store /\ seq = s.seq /\ issued = StoreIds(s.store)
  /\ last = Exchange("NONE", NoId, NoBody, FALSE, FALSE, Response(0, "empty", NoJson, <<>>))
  /\ projects = <<>>
  /\ mounted = FALSE
  /\ crashed = FALSE
  /\ reqs = EmptyBag
  /\ resps = EmptyBag
  /\ nreq = 0

\* The client issues a fetch call.
Fetch(m) ==
  /\ nreq < MaxReqs
  /\ InFlight < MaxInFlight
  /\ nreq' = nreq + 1
  /\ reqs' = reqs (+) One(m)
  /\ UNCHANGED <<resps, projects, crashed, store, seq, issued, last>>

\* App: useEffect(() => { fetch('/api/projects') ... }, [])
Mount ==
  /\ ~mounted
  /\ mounted' = TRUE
  /\ Fetch(Request("GET", NoId, NoBody))

\* ProjectForm handleSubmit -> onAdd(payload) -> addProject(project)
AddProject(f) ==
  /\ mounted /\ ~crashed
  /\ FormValid(f)
  /\ Fetch(Request("POST", NoId, Payload(f)))
  /\ UNCHANGED mounted

\* ProjectTable: onClick: () => onToggleFinish(p) -> toggleFinished(project)
ToggleFinished(i) ==
  /\ mounted /\ ~crashed
  /\ i \in 1..Len(projects)
  /\ Fetch(Request("PUT", projects[i].id, ToggledBody(projects[i])))
  /\ UNCHANGED mounted

\* ProjectTable: onClick: () => onDelete(p.id) -> deleteProject(id)
DeleteProjectClick(i) ==
  /\ mounted /\ ~crashed
  /\ i \in 1..Len(projects)
  /\ Fetch(Request("DELETE", projects[i].id, NoBody))
  /\ UNCHANGED mounted

\* The server handles a fetch call of the client and answers it.
Answer(m, o) ==
  /\ o.seq <= MaxId
  /\ reqs' = reqs (-) One(m)
  /\ resps' = resps (+) One(Reply(m.method, m.id, o.res))
  /\ store' = o.store
  /\ seq' = o.seq
  /\ issued' = (IF m.method = "POST" THEN Issue(o.res) ELSE issued)
  /\ UNCHANGED <<last, projects, mounted, crashed, nreq>>

ServeGet(m, errAll) ==
  /\ BagIn(m, reqs) /\ m.method = "GET"
  /\ Answer(m, GetProjects(store, seq, errAll))

ServePost(m, errRun, errGet) ==
  /\ BagIn(m, reqs) /\ m.method = "POST"
  /\ Answer(m, PostProjects(store, seq, m.body, errRun, errGet))

ServePut(m, errRun, errGet) ==
  /\ BagIn(m, reqs) /\ m.method = "PUT"
  /\ Answer(m, PutProject(store, seq, m.id, m.body, errRun, errGet))

ServeDelete(m, errRun) ==
  /\ BagIn(m, reqs) /\ m.method = "DELETE"
  /\ Answer(m, DeleteProject(store, seq, m.id, errRun))

\* The network call fails before the request reaches the server.
RequestLost(m) ==
  /\ BagIn(m, reqs)
  /\ reqs' = reqs (-) One(m)
  /\ resps' = resps (+) One(Reply(m.method, m.id, Failed))
  /\ UNCHANGED <<store, seq, issued, last, projects, mounted, crashed, nreq>>

\* The network call fails after the server has handled the request.
ResponseLost(r) ==
  /\ BagIn(r, resps)
  /\ r.res.kind # "failed"
  /\ resps' = (resps (-) One(r)) (+) One(Reply(r.method, r.id, Failed))
  /\ UNCHANGED <<store, seq, issued, last, projects, mounted, crashed, nreq, reqs>>

\* The promise chain of a fetch call settles.
Settle(r) ==
  /\ BagIn(r, resps)
  /\ resps' = resps (-) One(r)
  /\ UNCHANGED <<store, seq, issued, last, mounted, nreq, reqs>>

\* .catch((err) => console.error(err)): fetch rejected, or res.json() rejected
\* because the body is no JSON text.
Rejects(r) == r.res.kind \in {"failed", "empty"}
Catch(r) ==
  /\ Rejects(r)
  /\ Settle(r)
  /\ UNCHANGED <<projects, crashed>>

\* A state update of a component whose rendering has thrown changes nothing.
Dropped(r) ==
  /\ ~Rejects(r) /\ crashed
  /\ Settle(r)
  /\ UNCHANGED <<projects, crashed>>

\* App mount effect: .then((data) => setProjects(data)); an object in the
\* place of the array makes the next render throw (projects.map).
ThenList(r) ==
  /\ r.method = "GET" /\ ~Rejects(r) /\ ~crashed
  /\ Settle(r)
  /\ IF r.res.kind = "array"
     THEN projects' = r.res.rows /\ UNCHANGED crashed
     ELSE projects' = <<>> /\ crashed' = TRUE

\* addProject: .then((newProject) => setProjects((prev) => [...prev, newProject]))
ThenAdd(r) ==
  /\ r.method = "POST" /\ ~Rejects(r) /\ ~crashed
  /\ Settle(r)
  /\ projects' = AppendProject(projects, r.res.body)
  /\ UNCHANGED crashed

\* deleteProject: .then(() => setProjects((prev) => prev.filter(...)))
ThenDelete(r) ==
  /\ r.method = "DELETE" /\ ~Rejects(r) /\ ~crashed
  /\ Settle(r)
  /\ projects' = FilterOut(projects, r.id)
  /\ UNCHANGED crashed

\* toggleFinished: .then((updatedRow) => setProjects((prev) => prev.map(...)))
ThenToggle(r) ==
  /\ r.method = "PUT" /\ ~Rejects(r) /\ ~crashed
  /\ Settle(r)
  /\ projects' = ReplaceById(projects, r.res.body)
  /\ UNCHANGED crashed

UiNext ==
  \/ Mount
  \/ \E f \in FormStates : AddProject(f)
  \/ \E i \in 1..Len(projects) : ToggleFinished(i)
  \/ \E i \in 1..Len(projects) : DeleteProjectClick(i)
  \/ \E m \in BagToSet(reqs), e \in BOOLEAN : ServeGet(m, e)
  \/ \E m \in BagToSet(reqs), f \in StoreFaults : ServePost(m, f = "run", f = "get")
  \/ \E m \in BagToSet(reqs), f \in StoreFaults : ServePut(m, f = "run", f = "get")
  \/ \E m \in BagToSet(reqs), e \in BOOLEAN : ServeDelete(m, e)
  \/ \E m \in BagToSet(reqs) : RequestLost(m)
  \/ \E r \in BagToSet(resps) : ResponseLost(r)
  \/ \E r \in BagToSet(resps) : Catch(r)
  \/ \E r \in BagToSet(resps) : Dropped(r)
  \/ \E r \in BagToSet(resps) : ThenList(r)
  \/ \E r \in BagToSet(resps) : ThenAdd(r)
  \/ \E r \in BagToSet(resps) : ThenDelete(r)
  \/ \E r \in BagToSet(resps) : ThenToggle(r)

SpecUi == InitUi /\ [][UiNext]_vars

\* The client and the server when no request fails: the store runs every
\* statement and no network call fails.
UiOkNext ==
  \/ Mount
  \/ \E f \in FormStates : AddProject(f)
  \/ \E i \in 1..Len(projects) : ToggleFinished(i)
  \/ \E i \in 1..Len(projects) : DeleteProjectClick(i)
  \/ \E m \in BagToSet(reqs) : ServeGet(m, FALSE)
  \/ \E m \in BagToSet(reqs) : ServePost(m, FALSE, FALSE)
  \/ \E m \in BagToSet(reqs) : ServePut(m, FALSE, FALSE)
  \/ \E m \in BagToSet(reqs) : ServeDelete(m, FALSE)
  \/ \E r \in BagToSet(resps) : Catch(r)
  \/ \E r \in BagToSet(resps) : ThenList(r)
  \/ \E r \in BagToSet(resps) : ThenAdd(r)
  \/ \E r \in BagToSet(resps) : ThenDelete(r)
  \/ \E r \in BagToSet(resps) : ThenToggle(r)

SpecUiOk == InitUi /\ [][UiOkNext]_vars

\* ------------------------------------------------------------ claims on the API
\* A step of SpecApi is one exchange: last' names the request and the answer,
\* store the rows before it and store' the rows after it.
StoreRan(x) == ~x.errRun /\ ~x.errGet
Missing(v) == v = Undef \/ v = ""
Valid(b) == ~Missing(b.title) /\ ~Missing(b.deadline) /\ ~Missing(b.person)
Truthy(n) == n \notin {UndefNum, 0}

IndexOfId(st, id) == CHOOSE i \in 1..Len(st) : st[i].id = id

\* What C1 asks of one step.
C1_Post(x, st, st2) ==
  (x.method = "POST" /\ Valid(x.body) /\ StoreRan(x)) =>
    /\ x.res.status = 201
    /\ x.res.kind = "object"
    /\ x.res.body.id # NoId
    /\ x.res.body.id \notin StoreIds(st)
    /\ x.res.body.title = x.body.title
    /\ x.res.body.deadline = x.body.deadline
    /\ x.res.body.person = x.body.person
    /\ (x.body.description = Undef => x.res.body.description = "")
    /\ (x.body.client = Undef => x.res.body.client = "")
    /\ (x.body.contact = Undef => x.res.body.contact = "")
    /\ (x.body.achievements = UndefNum => x.res.body.achievements = 0)
    /\ (x.body.price = UndefNum => x.res.body.price = 0)
    /\ x.res.body.finished \in {0, 1}
    /\ (x.res.body.finished = 1 <=> Truthy(x.body.finished))
    /\ Len(st2) = Len(st) + 1
    /\ SubSeq(st2, 1, Len(st)) = st
    /\ RowJson(st2[Len(st2)]) = x.res.body

\* C1: a POST whose title, deadline and person are non-empty, on a store that
\* runs its statements, is answered 201 with a record whose id no row held
\* before; a property the body omits holds its default ('' for description,
\* client and contact, 0 for achievements and price), finished is 1 when the
\* body's finished is truthy and 0 otherwise; the store gains exactly one
\* row, the last one, and it is the record returned.
C1_CreateAppliesDefaults == [][C1_Post(last', store, store')]_vars

C1_Witness ==
  /\ last.method = "POST"
  /\ last.res.status = 201
  /\ last.body.description = Undef
  /\ last.body.finished = UndefNum
  /\ Len(store) = 2
  /\ RowJson(store[2]) = last.res.body
  /\ last.res.body.description = ""
  /\ last.res.body.finished = 0

\* What C2 asks of one step.
C2_Post(x, st, sq, st2) ==
  (x.method = "POST" /\ ~Valid(x.body)) =>
    /\ x.res.status = 400
    /\ x.res.kind = "object"
    /\ x.res.body.error # Undef
    /\ st2 = st
    /\ GetProjects(st2, sq, FALSE).res = GetProjects(st, sq, FALSE).res

\* C2: a POST whose title, deadline or person is absent or empty is answered
\* 400 with an error message, whatever the store would do, and no row is
\* persisted: the store, and what GET then lists, are as before.
C2_InvalidCreateRejected == [][C2_Post(last', store, seq, store')]_vars

C2_Witness ==
  /\ last.method = "POST"
  /\ last.res.status = 400
  /\ last.body.title # Undef
  /\ last.body.deadline = ""
  /\ Len(store) = 1

\* What C3 asks of one step.
C3_Put(x, st, st2) ==
  (/\ x.method = "PUT"
   /\ x.id \in StoreIds(st)
   /\ x.body.title # Undef /\ x.body.deadline # Undef /\ x.body.person # Undef
   /\ StoreRan(x)) =>
    LET new == Row(x.id, x.body.title, x.body.description, x.body.deadline,
                   x.body.person, x.body.client, x.body.contact,
                   x.body.achievements, x.body.price,
                   IF Truthy(x.body.finished) THEN 1 ELSE 0)
        old == st[IndexOfId(st, x.id)]
        listed == GetProjects(st2, 0, FALSE).res.rows
    IN  /\ x.res.status = 200
        /\ x.res.kind = "object"
        /\ x.res.body = RowJson(new)
        /\ Len(st2) = Len(st)
        /\ \A i \in 1..Len(st) :
             st2[i] = IF st[i].id = x.id THEN new ELSE st[i]
        /\ \E i \in 1..Len(listed) : listed[i] = RowJson(new)
        /\ (old # new => \A i \in 1..Len(listed) : listed[i] # RowJson(old))

\* C3: a PUT for an id the store holds, with a value for title, deadline and
\* person, on a store that runs its statements, is answered 200 with the
\* record of exactly the body's values (finished as 1 when truthy, 0
\* otherwise) under that id; afterwards the store holds that record in the
\* place of the original row, and every other row as before.
C3_UpdateReplacesRow == [][C3_Put(last', store, store')]_vars

C3_Witness ==
  /\ last.method = "PUT"
  /\ last.res.status = 200
  /\ last.res.kind = "object"
  /\ last.body.finished = 2
  /\ Len(store) = 2
  /\ last.id = store[1].id
  /\ store[1].title = "Shop 2"
  /\ store[1].finished = 1
  /\ store[2].title = "Website"

\* What C4 asks of one step.
C4_Delete(x, st, st2) ==
  (x.method = "DELETE" /\ x.id \in StoreIds(st) /\ ~x.errRun) =>
    LET listed == GetProjects(st2, 0, FALSE).res.rows
    IN  /\ x.id \notin StoreIds(st2)
        /\ \A i \in 1..Len(listed) : listed[i].id # x.id
        /\ Len(st2) = Len(st) - 1
        /\ \A i \in 1..Len(st) :
             st[i].id # x.id =>
               st2[IF i < IndexOfId(st, x.id) THEN i ELSE i - 1] = st[i]

\* C4: a DELETE for an id the store holds, on a store that runs the
\* statement, removes exactly that row: the id is listed no more, and every
\* other row is still there, unchanged and in the same order.
C4_DeleteRemovesRow == [][C4_Delete(last', store, store')]_vars

C4_Witness ==
  /\ last.method = "DELETE"
  /\ last.res.status = 200
  /\ last.id = 1
  /\ seq = 2
  /\ Len(store) = 1
  /\ store[1].id = 2

\* What C5 asks of one step.
C5_Delete(x, st, st2) ==
  (x.method = "DELETE" /\ x.id \notin StoreIds(st) /\ ~x.errRun) =>
    /\ x.res.status = 200
    /\ x.res.body.success
    /\ st2 = st
C5_Twice(st, sq) ==
  \A id \in Ids :
    LET once == DeleteProject(st, sq, id, FALSE)
        twice == DeleteProject(once.store, once.seq, id, FALSE)
    IN  /\ once.res.status = 200 /\ once.res.body.success
        /\ twice.res.status = 200 /\ twice.res.body.success
        /\ twice.store = once.store
        /\ twice.seq = once.seq

\* C5: a DELETE for an id that matches no row reports success and leaves the
\* store as it is; and in every reachable state, for every id, a second
\* DELETE of the id reports success like the first and leaves the store the
\* first one left.
C5_DeleteIdempotent ==
  [](C5_Twice(store, seq)) /\ [][C5_Delete(last', store, store')]_vars

C5_Witness ==
  /\ last.method = "DELETE"
  /\ last.res.status = 200
  /\ last.res.body.success
  /\ last.id > seq
  /\ last.id \notin StoreIds(store)
  /\ Len(store) = 1

\* What C6 asks of one step.
C6_Step(x, st, st2, before) ==
  /\ Cardinality(StoreIds(st2)) = Len(st2)
  /\ (x.method = "PUT" =>
        /\ Len(st2) = Len(st)
        /\ \A i \in 1..Len(st) : st2[i].id = st[i].id)
  /\ ((x.method = "POST" /\ x.res.status = 201) => x.res.body.id \notin before)

\* C6: no two rows of the store share an id; a PUT changes the id of no row;
\* and a POST answered 201 returns an id that no earlier POST returned, also
\* when the row of the earlier one has been deleted.
C6_IdsUniqueNeverReused == [][C6_Step(last', store, store', issued)]_vars

C6_Witness ==
  /\ last.method = "POST"
  /\ last.res.status = 201
  /\ last.res.body.id = 2
  /\ 1 \in issued
  /\ StoreIds(store) = {2}

\* What C7 asks of one step.
C7_Put(x, st, st2) ==
  (x.method = "PUT" /\ x.id \notin StoreIds(st)) =>
    /\ x.res.status >= 400
    /\ x.res.kind = "object"
    /\ x.res.body.error # Undef
    /\ st2 = st

\* C7: a PUT for an id that matches no row is answered with an error (a
\* status that does not report success, and an error message), and leaves the
\* store as it is.
C7_UpdateMissingFails == [][C7_Put(last', store, store')]_vars

\* ------------------------------------------------------------ claims on the client
\* A step settles reply r when it takes r, and nothing else, from resps; it
\* issues request m when it puts m, and nothing else, into reqs.
Settles(r) == BagIn(r, resps) /\ resps' = resps (-) One(r) /\ reqs' = reqs
Issues(m) == reqs' = reqs (+) One(m) /\ resps' = resps
Leaves(m) == BagIn(m, reqs) /\ reqs' = reqs (-) One(m)

\* What C8 asks of one step.
FailedCall(r) ==
  /\ r.method \in {"POST", "PUT", "DELETE"}
  /\ (r.res.status \in {400, 500} \/ r.res.kind = "failed")

\* C8: when an Add, ToggleFinish or Remove call fails (the API answers 400 or
\* 500, or the network call itself fails), the local snapshot after the call
\* is the snapshot before it.
C8_FailureLeavesSnapshot ==
  [][\A r \in BagToSet(resps) :
       (Settles(r) /\ FailedCall(r)) => projects' = projects]_vars

\* What C9 asks of one step.
C9_Before ==
  /\ \A m \in BagToSet(reqs') : (m.method = "POST" /\ Issues(m)) => projects' = projects
  /\ \A m \in BagToSet(reqs) : (m.method = "POST" /\ Leaves(m)) => projects' = projects
C9_After ==
  \A r \in BagToSet(resps) :
    (/\ Settles(r) /\ ~crashed
     /\ r.method = "POST" /\ r.res.status = 201 /\ r.res.kind = "object") =>
      LET e == r.res.body
      IN  /\ Len(projects') = Len(projects) + 1
          /\ SubSeq(projects', 1, Len(projects)) = projects
          /\ projects'[Len(projects')] = e
          /\ e.id \in issued
          /\ e.description # Undef /\ e.client # Undef /\ e.contact # Undef
          /\ e.achievements # UndefNum /\ e.price # UndefNum
          /\ e.finished \in {0, 1}
          /\ e.error = Undef

\* C9: while the snapshot is an array, an Add changes nothing of it when the
\* POST is issued, while it is on its way or handled, or when it is lost; when
\* its 201 response is settled, the snapshot is the one before with exactly one
\* more entry at the end: the record of the response, with the id the server
\* assigned and no property undefined.
C9_AddAppendsConfirmed == [][C9_Before /\ C9_After]_vars

C9_Witness ==
  /\ ~crashed
  /\ InFlight = 0
  /\ Len(projects) = 2
  /\ projects[1].id = 1
  /\ projects[2].id = 2
  /\ projects[2].title = "Site"
  /\ projects[2].price = 0
  /\ Len(store) = 2

\* What C10 asks of one step.
C10_Sends ==
  \A m \in BagToSet(reqs') :
    (m.method = "PUT" /\ Issues(m)) =>
      /\ projects' = projects
      /\ \E i \in 1..Len(projects) :
           LET p == projects[i]
           IN  /\ m.id = p.id
               /\ m.body.title = p.title
               /\ m.body.description = p.description
               /\ m.body.deadline = p.deadline
               /\ m.body.person = p.person
               /\ m.body.client = p.client
               /\ m.body.contact = p.contact
               /\ m.body.achievements = p.achievements
               /\ m.body.price = p.price
               /\ m.body.finished = (IF Truthy(p.finished) THEN 0 ELSE 1)
C10_Applies ==
  \A r \in BagToSet(resps) :
    (/\ Settles(r) /\ ~crashed
     /\ r.method = "PUT" /\ r.res.status = 200 /\ r.res.kind = "object") =>
      /\ Len(projects') = Len(projects)
      /\ \A i \in 1..Len(projects) :
           projects'[i] = IF projects[i].id = r.res.body.id THEN r.res.body
                          ELSE projects[i]

\* C10: ToggleFinish of an entry of the snapshot issues a PUT for the entry's
\* id whose body carries the entry's properties, with finished 0 when the
\* entry's finished is truthy and 1 otherwise, and leaves the snapshot alone;
\* when its 200 response with a row is settled (the snapshot being an array),
\* every entry whose id is the row's id is replaced by the row, and every
\* other entry, the length and the order are as before.
C10_ToggleReplacesById == [][C10_Sends /\ C10_Applies]_vars

C10_Witness ==
  /\ ~crashed
  /\ InFlight = 0
  /\ Len(projects) = 2
  /\ projects[1].id = 1
  /\ projects[1].finished = 0
  /\ projects[2].id = 2
  /\ projects[2].title = "Site"
  /\ projects[2].finished = 1
  /\ store[2].finished = 1

\* ------------------------------------------------------------ the clients page
\* String.prototype.trim on the client names of the model.
NoTrim(v) == v
Trim(v) == CASE v = " Acme " -> "Acme" [] OTHER -> v

\* Property names every object literal inherits from Object.prototype:
\* clientMap[key] is truthy for them although clientMap has no such entry.
InheritedKeys ==
  { "constructor", "toString", "valueOf", "hasOwnProperty", "isPrototypeOf",
    "propertyIsEnumerable", "toLocaleString", "__proto__" }

\* key = (p.client || '').trim()
ClientKey(p) == Trim(OrEmpty(p.client))

OwnKeys(map) == { map[i].name : i \in 1..Len(map) }

\* The body of projects.forEach((p) => { ... }) on clientMap, whose own
\* entries are kept in the order Object.keys lists them (insertion order).
LastContactStep(map, p) ==
  LET key == ClientKey(p)
  IN  IF key = "" THEN map
      ELSE IF key \notin OwnKeys(map) /\ key \notin InheritedKeys
      THEN Append(map, [name |-> key, contact |-> OrEmpty(p.contact), count |-> 1])
      ELSE [i \in 1..Len(map) |->
              IF map[i].name = key
              THEN [map[i] EXCEPT !.count = @ + 1, !.contact = OrEmpty(p.contact)]
              ELSE map[i]]
ClientStep(map, p) ==
  LET key == ClientKey(p)
  IN  IF key = "" THEN map
      ELSE IF key \notin OwnKeys(map) /\ key \notin InheritedKeys
      THEN Append(map, [name |-> key, contact |-> OrEmpty(p.contact), count |-> 1])
      ELSE [i \in 1..Len(map) |->
              IF map[i].name = key
              THEN [map[i] EXCEPT
                      !.count = @ + 1,
                      !.contact = IF ~TruthyText(@) /\ TruthyText(p.contact)
                                  THEN p.contact ELSE @]
              ELSE map[i]]

\* ClientsPage({ projects }): clients = Object.keys(clientMap).map(...)
RECURSIVE ClientMap(_, _)
ClientMap(map, ps) ==
  IF ps = <<>> THEN map ELSE ClientMap(ClientStep(map, Head(ps)), Tail(ps))
ClientsPage(ps) == ClientMap(<<>>, ps)

\* The client and contact values of the entries the page is rendered from.
ClientNames == {"Acme", " Acme ", "Beta", "", Undef, "constructor"}
Contacts == {"a@x", "b@x", "", Undef}

SnapshotEntry(id, client, contact) ==
  Json(id, "Site", "", "2025-02-01", "Dana", client, contact, 0, 0, 0, Undef, FALSE)

InitClients ==
  /\ store = <<>>
  /\ seq = 0
  /\ issued = {}
  /\ last = Exchange("NONE", NoId, NoBody, FALSE, FALSE, Response(0, "empty", NoJson, <<>>))
  /\ \E n \in 0..MaxSnap :
       \E c \in [1..n -> ClientNames], ct \in [1..n -> Contacts] :
         projects = [i \in 1..n |-> SnapshotEntry(i, c[i], ct[i])]
  /\ mounted = TRUE
  /\ crashed = FALSE
  /\ reqs = EmptyBag
  /\ resps = EmptyBag
  /\ nreq = 0

\* The reply of a DELETE for an entry of the snapshot is settled: the entry is
\* filtered out and the page is rendered from what is left.
RemoveEntry(i) ==
  /\ i \in 1..Len(projects)
  /\ projects' = FilterOut(projects, projects[i].id)
  /\ UNCHANGED <<store, seq, issued, last, mounted, crashed, reqs, resps, nreq>>

ClientsNext == \E i \in 1..Len(projects) : RemoveEntry(i)

SpecClients == InitClients /\ [][ClientsNext]_vars

\* ------------------------------------------------------------ claim on the clients page
\* The indices of the entries of ps whose client name, read by name(_), is n.
IndicesOf(ps, name(_), n) == { i \in 1..Len(ps) : name(ps[i]) = n }
Least(S) == CHOOSE i \in S : \A j \in S : i <= j

\* The first non-empty contact among the entries at the indices S, '' if none.
FirstContact(ps, S) ==
  LET with == { i \in S : ps[i].contact \notin {"", Undef} }
  IN  IF with = {} THEN "" ELSE ps[Least(with)].contact

\* The view has exactly one entry for each name of the set names, and the
\* entry of a name counts the entries of ps with that name and holds their
\* first non-empty contact.
ViewGroups(view, ps, name(_), names) ==
  /\ { view[k].name : k \in 1..Len(view) } = names
  /\ Cardinality(names) = Len(view)
  /\ \A k \in 1..Len(view) :
       LET S == IndicesOf(ps, name, view[k].name)
       IN  /\ view[k].count = Cardinality(S)
           /\ view[k].contact = FirstContact(ps, S)

RawName(p) == p.client
Stripped(v) == IF v = " Acme " THEN "Acme" ELSE v
TrimmedName(p) == Stripped(IF p.client = Undef THEN "" ELSE p.client)

SnapshotRecords == { projects[i] : i \in 1..Len(projects) }
StoreRecords == { RowJson(store[i]) : i \in 1..Len(store) }
Idle == mounted /\ InFlight = 0

\* C12 as stated: with one client and no failed request, whenever no request
\* is in flight the records of the snapshot are the rows of the store (same
\* ids, same values), whatever the interleaving of the startup Refresh with
\* Add, ToggleFinish and Remove and the order of the responses.
C12_IdleSnapshotIsStore == Idle => SnapshotRecords = StoreRecords

\* The calls of the client that are unsettled: requests on their way and
\* replies not yet applied, by method and id.
Pending == { [method |-> m.method, id |-> m.id] : m \in BagToSet(reqs) \cup BagToSet(resps) }
PendingCount(method, id) ==
  LET rq == { m \in BagToSet(reqs) : m.method = method /\ m.id = id }
      rp == { r \in BagToSet(resps) : r.method = method /\ r.id = id }
      Sum(B, S) == BagCardinality([x \in S |-> CopiesIn(x, B)])
  IN  Sum(reqs, rq) + Sum(resps, rp)

\* An Add is unsettled together with the startup Refresh.
AddDuringRefresh ==
  \E a \in Pending, g \in Pending : a.method = "POST" /\ g.method = "GET"
\* Two ToggleFinish calls for the same record are unsettled together.
ToggleOverlap ==
  \E t \in Pending : t.method = "PUT" /\ PendingCount("PUT", t.id) >= 2

\* What does hold of the snapshot and the store: with one client and no
\* failed request, provided no Add is
\* issued before the response of the startup Refresh is applied and no
\* ToggleFinish is issued for a record while another one for that record is
\* unsettled, whenever no request is in flight the records of the snapshot
\* are the rows of the store, for every interleaving of the calls and every
\* order in which their responses arrive.
SyncWhenSingleFlight ==
  [](~AddDuringRefresh /\ ~ToggleOverlap) => [](Idle => SnapshotRecords = StoreRecords)

\* C13: in every reachable state the snapshot holds at most one entry per
\* id, for every interleaving of the startup Refresh and of Add, ToggleFinish
\* and Remove requests and responses.
C13_OneEntryPerId ==
  \A i, j \in 1..Len(projects) : projects[i].id = projects[j].id => i = j

\* The entries of the snapshot with id k all hold finished s, and there is one.
EntryFinished(k, s) ==
  /\ \E i \in 1..Len(projects) : projects[i].id = k
  /\ \A i \in 1..Len(projects) : projects[i].id = k => projects[i].finished = s
\* The store holds a row with id k, and its finished is s.
RowFinished(k, s) ==
  /\ \E i \in 1..Len(store) : store[i].id = k
  /\ \A i \in 1..Len(store) : store[i].id = k => store[i].finished = s
Once(s) == IF s = 0 THEN 1 ELSE 0

\* Nothing is in flight after n calls; the record k is in the store and its
\* local copy holds finished s.
C14_Start(n, k, s) ==
  Idle /\ nreq = n /\ EntryFinished(k, s) /\ \E i \in 1..Len(store) : store[i].id = k
\* Both calls issued since are ToggleFinish calls for k, and neither response
\* has been applied.
C14_BothUnsettled(n, k) ==
  nreq = n + 2 /\ InFlight = 2 /\ PendingCount("PUT", k) = 2
\* The value the two calls carry: in the request, and in the row the handler
\* wrote from a request it has already handled.
C14_BothSend(k, v) ==
  /\ \A m \in BagToSet(reqs) : m.body.finished = v
  /\ \A r \in BagToSet(resps) :
       r.res.status = 200 /\ r.res.kind = "object" /\ r.res.body.finished = v
\* Both calls are complete and no other call has been issued.
C14_BothComplete(n) == Idle /\ nreq = n + 2

\* C14: when two ToggleFinish calls for the same record are issued with
\* nothing else in flight and before either response is applied, both send
\* the same finished value, the local copy's value flipped, whether or not
\* the store row has been flipped by the first already; and once both are
\* complete, no other call having been issued, the store row and the local
\* entry hold finished flipped once relative to the starting value.
C14_DoubleToggleFlipsOnce ==
  \A n \in 0..MaxReqs, k \in Ids, s \in {0, 1} :
    [](C14_Start(n, k, s) =>
         [](C14_BothUnsettled(n, k) =>
              /\ EntryFinished(k, s)
              /\ C14_BothSend(k, Once(s))
              /\ [](C14_BothComplete(n) =>
                      RowFinished(k, Once(s)) /\ EntryFinished(k, Once(s)))))

\* Both calls of a double click are complete: the record started with
\* finished 0 and the store row and the local entry hold 1.
C14_Witness ==
  /\ Idle /\ nreq = 3 /\ seq = 1
  /\ RowFinished(1, 1) /\ EntryFinished(1, 1)
  /\ Len(projects) = 1

====
